---- MODULE Spec2Model ----
(***************************************************************************)
(* Lifecycle-staged UDP servers of ganeshkbhat/udp.                        *)
(*                                                                         *)
(*   Part I  : createUdpServer (callback-array server, src/unnamed/part_000)*)
(*   Part II : ProtocolServer  (on / onError / call, src/index.js)         *)
(*   Part III: the stream path (handleConnection of a TCPServer)           *)
(*   Part IV : UDPServer (listen, message listener, respond, shutdown)     *)
(*   Part V  : createUdpClient (sendData, src/certs/certificates.sh)       *)
(*                                                                         *)
(* Each raw transport event (listening, error, message, send completion,   *)
(* close) is one action that runs the whole listener.  A handler is a user *)
(* callable: every invocation either returns or throws.  createUdpServer   *)
(* runs its chains with a bare forEach, so the first throw ends the        *)
(* listener; which handler throws is chosen with \E.                       *)
(***************************************************************************)
EXTENDS Integers, Sequences, FiniteSets, TLC

(***************************************************************************)
(* Bounds of the model.                                                    *)
(***************************************************************************)
ChainLen == 2          \* handlers per stage chain of a configuration
MaxDatagrams == 2      \* datagrams delivered to one server
MaxCloseCalls == 2     \* close() invocations by the owning process
MaxSocketErrors == 1   \* 'error' events the transport emits on one socket
MaxRegs == 2           \* on / onError registrations by the application
MaxCalls == 2          \* call() invocations by the application
MaxActs == 3           \* call() invocations in all, error dispatches included
MaxConns == 1          \* connections the stream server accepts
MaxChunks == 2         \* 'data' events of the accepted connections in all
MaxFailures == 1       \* handler failures while connections are served
MaxUdpOps == 3         \* method invocations on and datagrams to one UDPServer
MaxSends == 3          \* sendData invocations on one client

(***************************************************************************)
(* Part I.  createUdpServer                                                *)
(***************************************************************************)
Stages ==
  {"init", "listening", "handshake", "connect", "receiveMessage",
   "processMessage", "respondMessage", "disconnect", "shutdown", "error"}

\* rinfo of the senders: two identities that share the address.
Peers ==
  {[address |-> "127.0.0.1", port |-> 5001],
   [address |-> "127.0.0.1", port |-> 5002]}

\* Datagram payloads as byte sequences: "", "a", "Hi" and a lone byte 0xFF
\* (not valid UTF-8).
Payloads == {<< >>, <<97>>, <<72, 105>>, <<255>>}

\* A payload is text when every byte is ASCII.
IsText(buf) == \A i \in DOMAIN buf : buf[i] < 128

\* Buffer.prototype.toString(): UTF-8 decoding to code points; a byte that
\* starts no valid sequence decodes to U+FFFD.
toString(buf) == [i \in DOMAIN buf |-> IF buf[i] < 128 THEN buf[i] ELSE 65533]

\* String.prototype.toUpperCase() on the code points of the model.
toUpperCase(str) ==
  [i \in DOMAIN str |-> IF str[i] \in 97..122 THEN str[i] - 32 ELSE str[i]]

\* Buffer.from(string): UTF-8 encoding of the code points.
RECURSIVE BufferFrom(_)
BufferFrom(str) ==
  IF str = << >> THEN << >>
  ELSE (IF Head(str) < 128 THEN <<Head(str)>> ELSE <<239, 191, 189>>)
         \o BufferFrom(Tail(str))

\* The characters of the template literal `ACK: ${...}` before the hole.
AckLiteral == <<65, 67, 75, 58, 32>>

\* const processedData = msg.toString().toUpperCase();
ProcessedData(msg) == toUpperCase(toString(msg))

\* const response = Buffer.from(`ACK: ${processedData}`);
Response(msg) == BufferFrom(AckLiteral \o ProcessedData(msg))

\* const sessionKey = `${rinfo.address}:${rinfo.port}`;
SessionKey(rinfo) == <<rinfo.address, ":", rinfo.port>>

NoPeer == << >>

\* The err a socket hands to its 'error' listeners: the bind failed because
\* the port is taken, or the bound socket failed later.
BindError == <<"EADDRINUSE">>
SocketError == <<"ESOCKET">>

VARIABLES
  config,          \* stage -> number of handlers of its chain
  sock,            \* the dgram socket: none, binding, bound, unbound, closing, closed
  activeSessions,  \* the Set of session keys, in insertion order
  pending,         \* acknowledgment sends whose callback has not run yet
  log,             \* chain firings, oldest first
  uncaught,        \* handler failures that left the server: <<stage, raw event>>
  alive,           \* FALSE once an uncaught exception has ended the process
  dgCount,         \* datagrams delivered so far
  closeCalls,      \* close() invocations by the owning process so far
  closeThrew,      \* how many of them threw ERR_SOCKET_DGRAM_NOT_RUNNING
  sendDone         \* completed acknowledgment sends: <<datagram, err>>

udpVars ==
  <<config, sock, activeSessions, pending, log, uncaught, alive, dgCount,
    closeCalls, closeThrew, sendDone>>

VARIABLES
  eventHandlers,   \* this.eventHandlers: stage -> chain of handlers
  acts,            \* the invocations of call(), oldest first
  warned,          \* events on() refused with console.warn
  regs,            \* registrations made by the application so far
  calls            \* call() invocations made by the application so far

psVars == <<eventHandlers, acts, warned, regs, calls>>

VARIABLES
  frames,          \* runs of handleConnection and of its socket listeners
  chunks           \* 'data' events delivered so far

tcpVars == <<frames, chunks>>

VARIABLES
  usock,           \* this.server of a UDPServer: none, binding, bound, unbound,
                   \* closing, closed
  usends,          \* respond() sends whose callback has not run yet (frames)
  usent            \* completed sends of respond(): <<frame, err>>

usVars == <<usock, usends, usent>>

VARIABLES
  isConnected,     \* let isConnected of createUdpClient
  clSock,          \* the client socket: none, open
  clPending,       \* sends of sendData whose callback has not run yet
  clLog,           \* chain firings of the client, oldest first
  clSends,         \* sendData invocations so far
  clAlive          \* FALSE once an uncaught exception has ended the process

clVars == <<isConnected, clSock, clPending, clLog, clSends, clAlive>>

vars == <<udpVars, psVars, tcpVars, usVars, clVars>>

\* The configurations a server is built with: every stage has a chain of the
\* same length.
Configs == {[s \in Stages |-> n] : n \in 1..ChainLen}

\* A stage key the configuration leaves out: the destructuring of the
\* constructor binds it to undefined.
Absent == -1

\* The key is in the configuration.
Present(stage) == config[stage] # Absent

\* Configurations of the test-suite that leave stage keys out: connect only,
\* error only, and every stage but error, each with chains of one handler.
OnlyConnect == [s \in Stages |-> IF s = "connect" THEN 1 ELSE Absent]
OnlyError == [s \in Stages |-> IF s = "error" THEN 1 ELSE Absent]
AllButError == [s \in Stages |-> IF s = "error" THEN Absent ELSE 1]
PartialConfigs == {OnlyConnect, OnlyError, AllButError}

(***************************************************************************)
(* chain.forEach(cb => cb(...)) for the chains of one listener.            *)
(* plan is the sequence of firings <<stage, who>> the listener makes when  *)
(* nothing throws; at = 0 when nothing throws, else the firing whose       *)
(* handler number h throws.  The firings that happen are those up to at.   *)
(***************************************************************************)
\* The first firing of the plan whose chain is undefined, Len(plan) + 1 when
\* there is none: undefined.forEach raises a TypeError before any handler of
\* that chain runs (throw point <<firing, 0>>).
FirstAbsent(plan) ==
  LET absent == {j \in DOMAIN plan : ~Present(plan[j][1])} IN
  IF absent = {} THEN Len(plan) + 1
  ELSE CHOOSE j \in absent : \A k \in absent : j <= k

ThrowPoints(plan) ==
  LET stop == FirstAbsent(plan) IN
  (IF stop > Len(plan) THEN {<<0, 0>>} ELSE {<<stop, 0>>}) \cup
  {tp \in (1..(stop - 1)) \X (1..ChainLen) : tp[2] <= config[plan[tp[1]][1]]}

Firing(stage, who, dg, ran, threw) ==
  [stage |-> stage, who |-> who, dg |-> dg, ran |-> ran, threw |-> threw]

forEach(plan, dg, at, h) ==
  [j \in 1..(IF at = 0 THEN Len(plan) ELSE at) |->
     IF j = at
       THEN Firing(plan[j][1], plan[j][2], dg, h, TRUE)
       ELSE Firing(plan[j][1], plan[j][2], dg, config[plan[j][1]], FALSE)]

\* Firing number j of the plan ran all its handlers.
Completed(at, j) == at = 0 \/ j < at

\* An exception that leaves a listener reaches the process: it ends it, or
\* an uncaughtException handler of the owning process keeps it running.
Escapes(plan, at, raw) ==
  IF at = 0
    THEN /\ uncaught' = uncaught
         /\ alive' = alive
    ELSE /\ uncaught' = uncaught \cup {<<plan[at][1], raw>>}
         /\ alive' \in BOOLEAN

UdpInit ==
  /\ config \in Configs
  /\ sock = "none"
  /\ activeSessions = << >>
  /\ pending = << >>
  /\ log = << >>
  /\ uncaught = {}
  /\ alive = TRUE
  /\ dgCount = 0
  /\ closeCalls = 0
  /\ closeThrew = 0
  /\ sendDone = {}

\* A constructor that binds without running the init chain.
CreateUdpServerSkipsInit ==
  /\ alive /\ sock = "none" /\ log = << >>
  /\ sock' = "binding"
  /\ UNCHANGED <<config, activeSessions, pending, log, uncaught, alive, dgCount,
                 closeCalls, closeThrew, sendDone>>

\* A constructor that announces listening itself, before the bind is confirmed.
CreateUdpServerAnnouncesEarly ==
  /\ alive /\ sock = "none" /\ log = << >>
  /\ LET plan == <<<<"init", NoPeer>>, <<"listening", NoPeer>>>> IN
     \E tp \in ThrowPoints(plan) :
       /\ log' = log \o forEach(plan, 0, tp[1], tp[2])
       /\ sock' = IF tp[1] = 0 THEN "binding" ELSE "none"
       /\ uncaught' = IF tp[1] = 0 THEN uncaught
                      ELSE uncaught \cup {<<plan[tp[1]][1], "constructor">>}
  /\ UNCHANGED <<config, activeSessions, pending, alive, dgCount, closeCalls,
                 closeThrew, sendDone>>

\* createUdpServer(config): init chain, createSocket, listeners, bind.
\* A throwing init handler ends the constructor: no socket is bound.
CreateUdpServer ==
  /\ alive /\ sock = "none" /\ log = << >>
  /\ \E tp \in ThrowPoints(<<<<"init", NoPeer>>>>) :
       /\ log' = log \o forEach(<<<<"init", NoPeer>>>>, 0, tp[1], tp[2])
       /\ sock' = IF tp[1] = 0 THEN "binding" ELSE "none"
       /\ uncaught' = IF tp[1] = 0 THEN uncaught
                      ELSE uncaught \cup {<<"init", "constructor">>}
  /\ UNCHANGED <<config, activeSessions, pending, alive, dgCount, closeCalls,
                 closeThrew, sendDone>>

\* server.on('listening', ...)
OnListening ==
  /\ alive /\ sock = "binding"
  /\ LET plan == <<<<"listening", NoPeer>>>> IN
     \E tp \in ThrowPoints(plan) :
       /\ log' = log \o forEach(plan, 0, tp[1], tp[2])
       /\ Escapes(plan, tp[1], "listening")
  /\ sock' = "bound"
  /\ UNCHANGED <<config, activeSessions, pending, dgCount, closeCalls,
                 closeThrew, sendDone>>

\* server.on('error', ...): the bind failed (socket binding) or the bound
\* socket reported an error.  error.forEach, then server.close().
OnError ==
  /\ alive /\ sock \in {"binding", "bound"}
  /\ Cardinality({i \in DOMAIN log : log[i].stage = "error"}) < MaxSocketErrors
  /\ LET err == IF sock = "binding" THEN BindError ELSE SocketError
         plan == <<<<"error", err>>>>
     IN
     \E tp \in ThrowPoints(plan) :
       /\ log' = log \o forEach(plan, 0, tp[1], tp[2])
       /\ Escapes(plan, tp[1], "error")
       /\ sock' = IF tp[1] = 0 THEN "closing"
                  ELSE IF sock = "binding" THEN "unbound" ELSE "bound"
  /\ UNCHANGED <<config, activeSessions, pending, dgCount, closeCalls,
                 closeThrew, sendDone>>

\* server.on('message', (msg, rinfo) => ...)
OnMessage(msg, rinfo) ==
  /\ alive /\ sock = "bound" /\ dgCount < MaxDatagrams
  /\ LET sessionKey == SessionKey(rinfo)
         isNewConnection == \A i \in DOMAIN activeSessions :
                               activeSessions[i] # sessionKey
         dg == dgCount + 1
         plan == <<<<"receiveMessage", sessionKey>>>>
                 \o (IF isNewConnection
                       THEN <<<<"handshake", sessionKey>>, <<"connect", sessionKey>>>>
                       ELSE << >>)
                 \o <<<<"processMessage", sessionKey>>>>
     IN
     \E tp \in ThrowPoints(plan) :
       /\ log' = log \o forEach(plan, dg, tp[1], tp[2])
       /\ Escapes(plan, tp[1], "message")
       \* activeSessions.add(sessionKey) follows the handshake chain
       /\ activeSessions' =
            IF isNewConnection /\ Completed(tp[1], 2)
              THEN Append(activeSessions, sessionKey)
              ELSE activeSessions
       \* server.send(response, rinfo.port, rinfo.address, callback)
       /\ pending' =
            IF tp[1] = 0
              THEN Append(pending, [to |-> rinfo, msg |-> msg,
                                    response |-> Response(msg), dg |-> dg])
              ELSE pending
       /\ dgCount' = dg
  /\ UNCHANGED <<config, sock, closeCalls, closeThrew, sendDone>>

\* A send callback that fires respondMessage whatever err is.
OnSendDoneAlwaysResponds(err) ==
  /\ alive /\ pending # << >>
  /\ LET s == Head(pending)
         plan == <<<<"respondMessage", SessionKey(s.to)>>>>
     IN
     \E tp \in ThrowPoints(plan) :
       /\ log' = log \o forEach(plan, s.dg, tp[1], tp[2])
       /\ Escapes(plan, tp[1], "send")
  /\ pending' = Tail(pending)
  /\ sendDone' = sendDone \cup {<<Head(pending).dg, err>>}
  /\ UNCHANGED <<config, sock, activeSessions, dgCount, closeCalls, closeThrew>>

\* The callback of server.send: respondMessage fires when err is null.
OnSendDone(err) ==
  /\ alive /\ pending # << >>
  /\ LET s == Head(pending)
         plan == IF err THEN << >>
                 ELSE <<<<"respondMessage", SessionKey(s.to)>>>>
     IN
     \E tp \in ThrowPoints(plan) :
       /\ log' = log \o forEach(plan, s.dg, tp[1], tp[2])
       /\ Escapes(plan, tp[1], "send")
  /\ pending' = Tail(pending)
  /\ sendDone' = sendDone \cup {<<Head(pending).dg, err>>}
  /\ UNCHANGED <<config, sock, activeSessions, dgCount, closeCalls, closeThrew>>

\* The owning process calls close() on the returned socket.  dgram throws
\* ERR_SOCKET_DGRAM_NOT_RUNNING when the socket is already closed.
Close ==
  /\ alive /\ sock # "none" /\ closeCalls < MaxCloseCalls
  /\ closeCalls' = closeCalls + 1
  /\ IF sock \in {"closing", "closed"}
       THEN /\ closeThrew' = closeThrew + 1
            /\ sock' = sock
       ELSE /\ closeThrew' = closeThrew
            /\ sock' = "closing"
  /\ UNCHANGED <<config, activeSessions, pending, log, uncaught, alive, dgCount, sendDone>>

\* A 'close' listener that fires shutdown before the disconnects.
OnCloseShutdownFirst ==
  /\ alive /\ sock = "closing"
  /\ LET k == Len(activeSessions)
         plan == <<<<"shutdown", NoPeer>>>>
                 \o [j \in 1..k |-> <<"disconnect", activeSessions[j]>>]
     IN
     \E tp \in ThrowPoints(plan) :
       /\ log' = log \o forEach(plan, 0, tp[1], tp[2])
       /\ Escapes(plan, tp[1], "close")
       /\ activeSessions' = IF tp[1] = 0 THEN << >> ELSE activeSessions
  /\ sock' = "closed"
  /\ UNCHANGED <<config, pending, dgCount, closeCalls, closeThrew, sendDone>>

\* server.on('close', ...): disconnect per session, clear, shutdown.
OnClose ==
  /\ alive /\ sock = "closing"
  /\ LET k == Len(activeSessions)
         plan == [j \in 1..k |-> <<"disconnect", activeSessions[j]>>]
                 \o <<<<"shutdown", NoPeer>>>>
     IN
     \E tp \in ThrowPoints(plan) :
       /\ log' = log \o forEach(plan, 0, tp[1], tp[2])
       /\ Escapes(plan, tp[1], "close")
       \* activeSessions.clear() follows the last disconnect chain
       /\ activeSessions' = IF Completed(tp[1], k) THEN << >> ELSE activeSessions
  /\ sock' = "closed"
  /\ UNCHANGED <<config, pending, dgCount, closeCalls, closeThrew, sendDone>>

(***************************************************************************)
(* Part II.  ProtocolServer (src/index.js)                                 *)
(*                                                                         *)
(* A handler is "default" (this._defaultErrorHandler, a console.warn that  *)
(* never fails) or a handler of the application, which returns, throws or  *)
(* rejects.  An invocation of call() is an activation: it has one handler  *)
(* in flight (pc = "await") until its chain is exhausted (pc = "done").    *)
(* for...of iterates the array object it started on: push() is seen by the *)
(* running loops over that array, while the filter() of on/onError makes a *)
(* new array the running loops do not follow (live = FALSE).               *)
(***************************************************************************)
DefaultErrorHandler == "default"
UserHandlers == {"h1", "h2"}

\* What the application registers on, calls and passes in the model.
RegEvents == {"connect", "error", "bogus"}
CallEvents == {"connect", "error", "bogus"}
CallArgs == {<<"a">>}

\* Array.prototype.includes / filter(h => h !== x)
Includes(chain, h) == \E i \in DOMAIN chain : chain[i] = h
Without(chain, h) == SelectSeq(chain, LAMBDA x : x # h)

\* The eventHandlers literal of the constructor.
EmptyHandlers == [s \in Stages |-> << >>]

\* The test of on() that evicts the default error handler.
OnEvicts(eh, event) ==
  /\ event # "error"
  /\ eh[event] = << >>
  /\ Includes(eh["error"], DefaultErrorHandler)

\* ProtocolServer.prototype.on: the eventHandlers it leaves.
on(eh, event, handler) ==
  IF event \in DOMAIN eh
    THEN LET eh1 == IF OnEvicts(eh, event)
                      THEN [eh EXCEPT !["error"] = Without(@, DefaultErrorHandler)]
                      ELSE eh
         IN [eh1 EXCEPT ![event] = Append(@, handler)]
    ELSE eh

\* ProtocolServer.prototype.onError: the eventHandlers it leaves.
onError(eh, handler) ==
  on(IF Includes(eh["error"], DefaultErrorHandler)
       THEN [eh EXCEPT !["error"] = Without(@, DefaultErrorHandler)]
       ELSE eh,
     "error", handler)

\* The running loops after a registration: replaced says that the error
\* array was replaced by a filtered copy before handler was pushed on event.
Iterators(as, replaced, event, handler) ==
  [i \in DOMAIN as |->
     LET a == as[i]
         follows == a.live /\ ~(replaced /\ a.event = "error")
     IN IF a.pc = "done" THEN a
        ELSE IF follows /\ a.event = event
               THEN [a EXCEPT !.chain = Append(@, handler)]
               ELSE [a EXCEPT !.live = follows]]

\* call() written with forEach instead of for...of with await: every handler
\* of the chain is invoked before call() returns.
ActivationInvokesAll(eh, event, args, parent) ==
  LET known == event \in DOMAIN eh
      chain == IF known THEN eh[event] ELSE << >>
  IN [event |-> event, args |-> args, chain |-> chain, live |-> known,
      known |-> known, ran |-> << >>, parent |-> parent,
      started |-> Len(chain),
      pc |-> IF chain # << >> THEN "await" ELSE "done"]

\* The activation a call(event, ...args) creates: the first handler of the
\* chain is invoked before call() returns.  started counts the handlers
\* invoked so far, ran records those that have settled.
Activation(eh, event, args, parent) ==
  LET known == event \in DOMAIN eh
      chain == IF known THEN eh[event] ELSE << >>
  IN [event |-> event, args |-> args, chain |-> chain, live |-> known,
      known |-> known, ran |-> << >>, parent |-> parent,
      started |-> IF chain # << >> THEN 1 ELSE 0,
      pc |-> IF chain # << >> THEN "await" ELSE "done"]

\* call(event, ...args) made by activation parent (0: the application), as
\* the activations it appends: for an event without an eventHandlers entry,
\* also call('error', new Error(...), event, ...args).
Dispatch(eh, as, event, args, parent) ==
  IF event \in DOMAIN eh
    THEN <<Activation(eh, event, args, parent)>>
    ELSE <<Activation(eh, event, args, parent),
           Activation(eh, "error", <<"NoHandlers", event>> \o args, Len(as) + 1)>>

\* The catch block of call(): this.call('error', error, event, ...args).
Caught(eh, as, i) ==
  Dispatch(eh, as, "error", <<"Error", as[i].event>> \o as[i].args, i)

PsInit ==
  /\ eventHandlers = onError(EmptyHandlers, DefaultErrorHandler)
  /\ acts = << >>
  /\ warned = {}
  /\ regs = 0
  /\ calls = 0

\* server.on(event, handler)
On(event, handler) ==
  /\ regs < MaxRegs
  /\ regs' = regs + 1
  /\ eventHandlers' = on(eventHandlers, event, handler)
  /\ warned' = IF event \in DOMAIN eventHandlers THEN warned
                ELSE warned \cup {event}
  /\ acts' = IF event \in DOMAIN eventHandlers
                THEN Iterators(acts, OnEvicts(eventHandlers, event), event, handler)
                ELSE acts
  /\ UNCHANGED calls

\* server.onError(handler)
OnErrorHandler(handler) ==
  /\ regs < MaxRegs
  /\ regs' = regs + 1
  /\ eventHandlers' = onError(eventHandlers, handler)
  /\ acts' = Iterators(acts, Includes(eventHandlers["error"], DefaultErrorHandler),
                        "error", handler)
  /\ UNCHANGED <<warned, calls>>

\* server.call(event, ...args) by the application
Call(event, args) ==
  /\ calls < MaxCalls
  /\ Len(acts) + 2 <= MaxActs
  /\ calls' = calls + 1
  /\ acts' = acts \o Dispatch(eventHandlers, acts, event, args, 0)
  /\ UNCHANGED <<eventHandlers, warned, regs>>

\* Settled with the try/catch around the loop instead of inside it: a
\* failure ends the loop of call().
SettledFailureEndsLoop(a, outcome) ==
  LET h == a.chain[Len(a.ran) + 1]
      ran == Append(a.ran, [h |-> h, outcome |-> outcome])
  IN [a EXCEPT !.ran = ran,
               !.started = IF outcome = "ok" /\ Len(ran) < Len(a.chain)
                             THEN @ + 1 ELSE @,
               !.pc = IF outcome = "ok" /\ Len(ran) < Len(a.chain)
                        THEN "await" ELSE "done"]

\* The handler in flight of activation i returns (ok) or throws/rejects
\* (fail); the loop of call() then goes on to the next handler.
Settled(a, outcome) ==
  LET h == a.chain[Len(a.ran) + 1]
      ran == Append(a.ran, [h |-> h, outcome |-> outcome])
  IN [a EXCEPT !.ran = ran,
               !.started = IF Len(ran) < Len(a.chain) THEN @ + 1 ELSE @,
               !.pc = IF Len(ran) < Len(a.chain) THEN "await" ELSE "done"]

Settle(i, outcome) ==
  /\ acts[i].pc = "await"
  /\ outcome = "fail" =>
       /\ acts[i].chain[Len(acts[i].ran) + 1] # DefaultErrorHandler
       /\ Len(acts) < MaxActs
  /\ acts' = [acts EXCEPT ![i] = Settled(acts[i], outcome)]
              \o (IF outcome = "fail" THEN Caught(eventHandlers, acts, i) ELSE << >>)
  /\ UNCHANGED <<eventHandlers, warned, regs, calls>>

(***************************************************************************)
(* Part III.  The stream path: ProtocolServer.handleConnection, which a    *)
(* TCPServer runs for every accepted connection (src/index.js).            *)
(*                                                                         *)
(* handleConnection and the 'data' and 'end' listeners it registers are    *)
(* async functions.  A frame is one run of such a function: todo holds the *)
(* stages it has still to call, waits the activation whose promise it is   *)
(* awaiting, made the activations it has created.  call() never rejects,   *)
(* so the catch blocks of these functions are not entered.                 *)
(***************************************************************************)
Sockets == 1..MaxConns
Chunks == {"x"}

Undefined == "undefined"

\* ProtocolServer.prototype.processMessage: what the promise it returns
\* resolves to.
ProcessMessageReturn == Undefined

\* The calls of the 'data' listener: receiveMessage, then processMessage
\* inside this.processMessage(), and under `processedData !== undefined`
\* processMessage once more and respondMessage inside this.respond().
DataProgram ==
  <<"receiveMessage", "processMessage">>
  \o (IF ProcessMessageReturn # Undefined
        THEN <<"processMessage", "respondMessage">>
        ELSE << >>)

Frame(kind, socket, args, todo) ==
  [kind |-> kind, socket |-> socket, args |-> args, todo |-> todo,
   waits |-> 0, made |-> << >>, pc |-> "run"]

\* Runs a frame until it awaits an activation that is not done, or returns.
RECURSIVE Advance(_, _, _)
Advance(f, eh, as) ==
  IF f.waits # 0 /\ as[f.waits].pc # "done"
    THEN [frame |-> f, acts |-> as]
  ELSE IF f.todo = << >>
    THEN [frame |-> [f EXCEPT !.pc = "done", !.waits = 0], acts |-> as]
  ELSE Advance([f EXCEPT !.todo = Tail(@), !.waits = Len(as) + 1,
                         !.made = Append(@, Len(as) + 1)],
               eh, as \o Dispatch(eh, as, Head(f.todo), f.args, 0))

\* The handlers a stream server is run with: one handler on each stage of a
\* connection and an error handler of the application.
StreamHandlers ==
  LET e0 == onError(EmptyHandlers, DefaultErrorHandler)
      e1 == on(e0, "connect", "h1")
      e2 == on(e1, "receiveMessage", "h1")
      e3 == on(e2, "processMessage", "h1")
      e4 == on(e3, "respondMessage", "h1")
      e5 == on(e4, "disconnect", "h1")
  IN onError(e5, "h2")

\* The listeners of the socket are registered: `await this.call('connect')`
\* of handleConnection has returned.
Open(socket) ==
  \E k \in DOMAIN frames :
    /\ frames[k].kind = "handleConnection"
    /\ frames[k].socket = socket
    /\ frames[k].pc = "done"

\* The socket has emitted 'end' or 'error': it emits no further 'data'.
Ended(socket) ==
  \E k \in DOMAIN frames :
    frames[k].kind \in {"end", "error"} /\ frames[k].socket = socket

TcpInit ==
  /\ frames = << >>
  /\ chunks = 0

\* net.createServer((socket) => self.handleConnection(socket))
HandleConnection(socket) ==
  /\ \A k \in DOMAIN frames : frames[k].socket # socket
  /\ LET r == Advance(Frame("handleConnection", socket, <<socket>>, <<"connect">>),
                      eventHandlers, acts)
     IN /\ frames' = Append(frames, r.frame)
        /\ acts' = r.acts
  /\ UNCHANGED <<eventHandlers, warned, regs, calls, chunks>>

\* socket.on('data', async (data) => ...)
OnData(socket, data) ==
  /\ Open(socket) /\ ~Ended(socket)
  /\ chunks < MaxChunks
  /\ chunks' = chunks + 1
  /\ LET r == Advance(Frame("data", socket, <<socket, data>>, DataProgram),
                      eventHandlers, acts)
     IN /\ frames' = Append(frames, r.frame)
        /\ acts' = r.acts
  /\ UNCHANGED <<eventHandlers, warned, regs, calls>>

\* socket.on('end', async () => ...)
OnEnd(socket) ==
  /\ Open(socket) /\ ~Ended(socket)
  /\ LET r == Advance(Frame("end", socket, <<socket>>, <<"disconnect">>),
                      eventHandlers, acts)
     IN /\ frames' = Append(frames, r.frame)
        /\ acts' = r.acts
  /\ UNCHANGED <<eventHandlers, warned, regs, calls, chunks>>

\* socket.on('error', (err) => ...): call('error', ...) is not awaited.
OnSocketError(socket) ==
  /\ Open(socket) /\ ~Ended(socket)
  /\ frames' = Append(frames,
                      [Frame("error", socket, <<"err", "socketError", socket>>, << >>)
                         EXCEPT !.made = <<Len(acts) + 1>>, !.pc = "done"])
  /\ acts' = acts \o Dispatch(eventHandlers, acts, "error",
                               <<"err", "socketError", socket>>, 0)
  /\ UNCHANGED <<eventHandlers, warned, regs, calls, chunks>>

\* The handler in flight of activation i settles while connections are
\* served: the loop of call() goes on, and when the activation is done the
\* function awaiting it resumes.
HandlerSettles(i, outcome) ==
  /\ acts[i].pc = "await"
  /\ outcome = "fail" =>
       /\ acts[i].chain[Len(acts[i].ran) + 1] # DefaultErrorHandler
       /\ Cardinality({c \in DOMAIN acts : acts[c].parent # 0}) < MaxFailures
  /\ LET as1 == [acts EXCEPT ![i] = Settled(acts[i], outcome)]
                \o (IF outcome = "fail" THEN Caught(eventHandlers, acts, i)
                    ELSE << >>)
         waiting == {k \in DOMAIN frames :
                       frames[k].pc = "run" /\ frames[k].waits = i}
     IN IF waiting = {}
          THEN /\ acts' = as1
               /\ frames' = frames
          ELSE LET k == CHOOSE w \in waiting : TRUE
                   r == Advance(frames[k], eventHandlers, as1)
               IN /\ acts' = r.acts
                  /\ frames' = [frames EXCEPT ![k] = r.frame]
  /\ UNCHANGED <<eventHandlers, warned, regs, calls, chunks>>

(***************************************************************************)
(* Part IV.  UDPServer (src/index.js): listen, the 'message', 'listening'  *)
(* and 'error' listeners of its socket, respond and shutdown.              *)
(*                                                                         *)
(* The async methods are frames as in Part III.  A frame whose calls have  *)
(* returned goes on with the statements that follow them in the same step: *)
(* listen creates and binds the socket, respond hands the response to the  *)
(* socket, shutdown closes it.  The promise a method returns is pending    *)
(* (pc = "settling"), resolved (pc = "done") or rejected.                  *)
(***************************************************************************)
UdpServerSocket == "server"
ListenArgs == <<"port", "address">>
UdpResponse == "response"

\* The payload of the datagrams a UDPServer receives: "a".
UdpPayloads == {<<97>>}

\* UDPServer.prototype.processMessage: what the promise it returns resolves to.
UdpProcessMessageReturn == Undefined

\* The handlers a UDPServer is run with: one handler on each stage it could
\* fire and an error handler of the application.
UdpHandlers ==
  LET e0 == onError(EmptyHandlers, DefaultErrorHandler)
      e1 == on(e0, "listening", "h1")
      e2 == on(e1, "handshake", "h1")
      e3 == on(e2, "connect", "h1")
      e4 == on(e3, "receiveMessage", "h1")
      e5 == on(e4, "processMessage", "h1")
      e6 == on(e5, "respondMessage", "h1")
      e7 == on(e6, "shutdown", "h1")
  IN onError(e7, "h2")

FramesOf(fs, kind) == {k \in DOMAIN fs : fs[k].kind = kind}

\* The state the steps of this part transform.
UdpState == [acts |-> acts, frames |-> frames, usock |-> usock, usends |-> usends]

\* The statements of an async method that follow its awaited calls.
After(st, k) ==
  LET f == st.frames[k] IN
  CASE f.kind = "listen" ->
         \* dgram.createSocket, the listeners, bind: the promise is pending
         [st EXCEPT !.usock = "binding", !.frames[k].pc = "settling"]
    [] f.kind = "respond" ->
         \* socket.send(buffer, ..., callback); send throws on a closed socket
         IF st.usock \in {"closing", "closed"}
           THEN [st EXCEPT !.acts = @ \o Dispatch(eventHandlers, @, "error",
                                                   <<"err", "respond">> \o f.args, 0)]
           ELSE [st EXCEPT !.usends = Append(@, k)]
    [] f.kind = "shutdown" ->
         \* if (self.server) self.server.close(callback) else resolve()
         IF st.usock = "none" THEN st
         ELSE IF st.usock \in {"closing", "closed"}
           THEN [st EXCEPT !.frames[k].pc = "rejected"]
           ELSE [st EXCEPT !.usock = "closing", !.frames[k].pc = "settling"]
    [] OTHER -> st

\* Frame k runs until it awaits an activation that is not done or returns.
Resume(st, k) ==
  LET r == Advance(st.frames[k], eventHandlers, st.acts)
      st1 == [st EXCEPT !.acts = r.acts, !.frames[k] = r.frame]
  IN IF r.frame.pc = "done" THEN After(st1, k) ELSE st1

\* An async method is invoked: its frame runs up to its first pending await.
Invoke(st, f) ==
  Resume([st EXCEPT !.frames = Append(@, f)], Len(st.frames) + 1)

Becomes(st) ==
  /\ acts' = st.acts
  /\ frames' = st.frames
  /\ usock' = st.usock
  /\ usends' = st.usends

UsInit ==
  /\ usock = "none"
  /\ usends = << >>
  /\ usent = {}

\* server.listen(port): ProtocolServer.prototype.listen fires the listening
\* chain, then the socket is created and bound.
UdpListen ==
  /\ FramesOf(frames, "listen") = {}
  /\ Len(frames) < MaxUdpOps
  /\ Becomes(Invoke(UdpState, Frame("listen", UdpServerSocket, ListenArgs,
                                     <<"listening">>)))
  /\ UNCHANGED <<eventHandlers, warned, regs, calls, chunks, usent>>

\* self.server.on('listening', ...): resolve()
UdpOnListening ==
  /\ usock = "binding"
  /\ usock' = "bound"
  /\ frames' = [k \in DOMAIN frames |->
                  IF frames[k].kind = "listen" /\ frames[k].pc = "settling"
                    THEN [frames[k] EXCEPT !.pc = "done"] ELSE frames[k]]
  /\ UNCHANGED <<eventHandlers, acts, warned, regs, calls, chunks, usends, usent>>

\* self.server.on('error', ...): call('error', err, 'listen'); reject(err)
UdpOnError ==
  /\ usock \in {"binding", "bound"}
  /\ \A i \in DOMAIN acts : ~(acts[i].event = "error" /\ acts[i].args[2] = "listen")
  /\ acts' = acts \o Dispatch(eventHandlers, acts, "error",
                               <<IF usock = "binding" THEN BindError ELSE SocketError,
                                 "listen">>, 0)
  /\ usock' = IF usock = "binding" THEN "unbound" ELSE "bound"
  /\ frames' = [k \in DOMAIN frames |->
                  IF frames[k].kind = "listen" /\ frames[k].pc = "settling"
                    THEN [frames[k] EXCEPT !.pc = "rejected"] ELSE frames[k]]
  /\ UNCHANGED <<eventHandlers, warned, regs, calls, chunks, usends, usent>>

\* self.server.on('message', (msg, rinfo) => ...): call('receiveMessage') is
\* not awaited; self.processMessage(...) is invoked at once.
UdpOnMessage(msg, rinfo) ==
  /\ usock = "bound"
  /\ Len(frames) < MaxUdpOps
  /\ LET st == [UdpState EXCEPT
                  !.acts = @ \o Dispatch(eventHandlers, @, "receiveMessage",
                                         <<UdpServerSocket, msg, rinfo>>, 0)]
         f == [Frame("message", UdpServerSocket, <<UdpServerSocket, msg>>,
                     <<"processMessage">>)
                 EXCEPT !.made = <<Len(acts) + 1>>]
         st1 == Invoke(st, f)
     IN Becomes(IF UdpProcessMessageReturn # Undefined
                    /\ st1.frames[Len(st1.frames)].pc = "done"
                  THEN Invoke(st1, Frame("respond", UdpServerSocket,
                                         <<UdpServerSocket, UdpProcessMessageReturn, rinfo>>,
                                         <<"respondMessage">>))
                  ELSE st1)
  /\ UNCHANGED <<eventHandlers, warned, regs, calls, chunks, usent>>

\* server.respond(server.server, response, rinfo) by the application
UdpRespond(rinfo) ==
  /\ usock = "bound"
  /\ Len(frames) < MaxUdpOps
  /\ Becomes(Invoke(UdpState, Frame("respond", UdpServerSocket,
                                     <<UdpServerSocket, UdpResponse, rinfo>>,
                                     <<"respondMessage">>)))
  /\ UNCHANGED <<eventHandlers, warned, regs, calls, chunks, usent>>

\* The callback of socket.send in respond(): call('error', err, 'respond', ...)
\* when err is set.
UdpOnSendDone(err) ==
  /\ usends # << >>
  /\ usends' = Tail(usends)
  /\ usent' = usent \cup {<<Head(usends), err>>}
  /\ acts' = IF err
               THEN acts \o Dispatch(eventHandlers, acts, "error",
                                     <<"err", "respond">> \o frames[Head(usends)].args, 0)
               ELSE acts
  /\ UNCHANGED <<eventHandlers, warned, regs, calls, chunks, frames, usock>>

\* server.shutdown() by the application
UdpShutdown ==
  /\ Len(frames) < MaxUdpOps
  /\ Becomes(Invoke(UdpState, Frame("shutdown", UdpServerSocket, << >>,
                                     <<"shutdown">>)))
  /\ UNCHANGED <<eventHandlers, warned, regs, calls, chunks, usent>>

\* The socket emits 'close': the callback of close() resolves the promise.
UdpOnClose ==
  /\ usock = "closing"
  /\ usock' = "closed"
  /\ frames' = [k \in DOMAIN frames |->
                  IF frames[k].kind = "shutdown" /\ frames[k].pc = "settling"
                    THEN [frames[k] EXCEPT !.pc = "done"] ELSE frames[k]]
  /\ UNCHANGED <<eventHandlers, acts, warned, regs, calls, chunks, usends, usent>>

\* The handler in flight of activation i settles; when the activation is
\* done the method awaiting it resumes.
UdpHandlerSettles(i, outcome) ==
  /\ acts[i].pc = "await"
  /\ outcome = "fail" =>
       /\ acts[i].chain[Len(acts[i].ran) + 1] # DefaultErrorHandler
       /\ Cardinality({c \in DOMAIN acts : acts[c].parent # 0}) < MaxFailures
  /\ LET st == [UdpState EXCEPT
                  !.acts = [@ EXCEPT ![i] = Settled(@, outcome)]
                           \o (IF outcome = "fail"
                                 THEN Caught(eventHandlers, acts, i) ELSE << >>)]
         waiting == {k \in DOMAIN frames :
                       frames[k].pc = "run" /\ frames[k].waits = i}
     IN Becomes(IF waiting = {} THEN st
                ELSE Resume(st, CHOOSE w \in waiting : TRUE))
  /\ UNCHANGED <<eventHandlers, warned, regs, calls, chunks, usent>>

(***************************************************************************)
(* Part V.  createUdpClient: the constructor, sendData and the callback of *)
(* its send.  The client is configured with one handler on each stage; the *)
(* chains are guarded with `if (x && Array.isArray(x))` and run with a     *)
(* bare forEach, so a handler that throws ends the function it runs in.    *)
(***************************************************************************)
ClientFiring(stage, threw) == [stage |-> stage, threw |-> threw]

ClInit ==
  /\ isConnected = FALSE
  /\ clSock = "none"
  /\ clPending = 0
  /\ clLog = << >>
  /\ clSends = 0
  /\ clAlive = TRUE

\* createUdpClient(config): init chain, createSocket, listeners, bind.
CreateUdpClient ==
  /\ clAlive /\ clSock = "none" /\ clLog = << >>
  /\ \E threw \in BOOLEAN :
       /\ clLog' = Append(clLog, ClientFiring("init", threw))
       /\ clSock' = IF threw THEN "none" ELSE "open"
  /\ UNCHANGED <<isConnected, clPending, clSends, clAlive>>

\* client.sendData(message): the handshake chain while !isConnected, then
\* client.send.  A throwing handshake handler leaves sendData before the
\* send, into the caller.
ClientSendData ==
  /\ clAlive /\ clSock = "open" /\ clSends < MaxSends
  /\ clSends' = clSends + 1
  /\ IF ~isConnected
       THEN \E threw \in BOOLEAN :
              /\ clLog' = Append(clLog, ClientFiring("handshake", threw))
              /\ clPending' = IF threw THEN clPending ELSE clPending + 1
              /\ clAlive' \in (IF threw THEN BOOLEAN ELSE {TRUE})
       ELSE /\ clLog' = clLog
            /\ clPending' = clPending + 1
            /\ clAlive' = clAlive
  /\ UNCHANGED <<isConnected, clSock>>

\* The callback of client.send: the error chain on err, else on the first
\* success isConnected = true and the connect chain.
ClientOnSendDone(err) ==
  /\ clAlive /\ clPending > 0
  /\ clPending' = clPending - 1
  /\ IF err
       THEN \E threw \in BOOLEAN :
              /\ clLog' = Append(clLog, ClientFiring("error", threw))
              /\ clAlive' \in (IF threw THEN BOOLEAN ELSE {TRUE})
              /\ isConnected' = isConnected
       ELSE IF ~isConnected
         THEN \E threw \in BOOLEAN :
                /\ clLog' = Append(clLog, ClientFiring("connect", threw))
                /\ clAlive' \in (IF threw THEN BOOLEAN ELSE {TRUE})
                /\ isConnected' = TRUE
         ELSE /\ clLog' = clLog
              /\ clAlive' = clAlive
              /\ isConnected' = isConnected
  /\ UNCHANGED <<clSock, clSends>>

Init == UdpInit /\ PsInit /\ TcpInit /\ UsInit /\ ClInit

Next ==
  \/ CreateUdpServer /\ UNCHANGED <<psVars, tcpVars, usVars, clVars>>
  \/ OnListening /\ UNCHANGED <<psVars, tcpVars, usVars, clVars>>
  \/ OnError /\ UNCHANGED <<psVars, tcpVars, usVars, clVars>>
  \/ \E msg \in Payloads, rinfo \in Peers : OnMessage(msg, rinfo) /\ UNCHANGED <<psVars, tcpVars, usVars, clVars>>
  \/ \E err \in BOOLEAN : OnSendDone(err) /\ UNCHANGED <<psVars, tcpVars, usVars, clVars>>
  \/ Close /\ UNCHANGED <<psVars, tcpVars, usVars, clVars>>
  \/ OnClose /\ UNCHANGED <<psVars, tcpVars, usVars, clVars>>

\* createUdpServer
Spec == Init /\ [][Next]_vars

\* createUdpServer built with a configuration that leaves stage keys out.
InitPartial ==
  /\ config \in PartialConfigs
  /\ sock = "none"
  /\ activeSessions = << >>
  /\ pending = << >>
  /\ log = << >>
  /\ uncaught = {}
  /\ alive = TRUE
  /\ dgCount = 0
  /\ closeCalls = 0
  /\ closeThrew = 0
  /\ sendDone = {}
  /\ PsInit
  /\ TcpInit
  /\ UsInit
  /\ ClInit

SpecPartial == InitPartial /\ [][Next]_vars

\* createUdpServer with a transport that delivers the 'close' event of a
\* socket that is closing.
Fairness == WF_vars(OnClose /\ UNCHANGED <<psVars, tcpVars, usVars, clVars>>)

SpecLive == Init /\ [][Next]_vars /\ Fairness

NextPS ==
  \/ \E event \in RegEvents, handler \in UserHandlers :
        On(event, handler) /\ UNCHANGED <<udpVars, tcpVars, usVars, clVars>>
  \/ \E handler \in UserHandlers : OnErrorHandler(handler) /\ UNCHANGED <<udpVars, tcpVars, usVars, clVars>>
  \/ \E event \in CallEvents, args \in CallArgs :
        Call(event, args) /\ UNCHANGED <<udpVars, tcpVars, usVars, clVars>>
  \/ \E i \in DOMAIN acts, outcome \in {"ok", "fail"} :
        Settle(i, outcome) /\ UNCHANGED <<udpVars, tcpVars, usVars, clVars>>

\* ProtocolServer
InitPS == Init /\ config = [s \in Stages |-> ChainLen]

SpecPS == InitPS /\ [][NextPS]_vars

NextTCP ==
  \/ \E socket \in Sockets : HandleConnection(socket) /\ UNCHANGED <<udpVars, usVars, clVars>>
  \/ \E socket \in Sockets, data \in Chunks :
        OnData(socket, data) /\ UNCHANGED <<udpVars, usVars, clVars>>
  \/ \E socket \in Sockets : OnEnd(socket) /\ UNCHANGED <<udpVars, usVars, clVars>>
  \/ \E socket \in Sockets : OnSocketError(socket) /\ UNCHANGED <<udpVars, usVars, clVars>>
  \/ \E i \in DOMAIN acts, outcome \in {"ok", "fail"} :
        HandlerSettles(i, outcome) /\ UNCHANGED <<udpVars, usVars, clVars>>

\* A TCPServer with its handlers registered, serving connections.
InitTCP ==
  /\ UdpInit /\ config = [s \in Stages |-> ChainLen]
  /\ eventHandlers = StreamHandlers
  /\ acts = << >>
  /\ warned = {}
  /\ regs = 0
  /\ calls = 0
  /\ TcpInit
  /\ UsInit
  /\ ClInit

SpecTCP == InitTCP /\ [][NextTCP]_vars

NextUDPS ==
  \/ UdpListen /\ UNCHANGED <<udpVars, clVars>>
  \/ UdpOnListening /\ UNCHANGED <<udpVars, clVars>>
  \/ UdpOnError /\ UNCHANGED <<udpVars, clVars>>
  \/ \E msg \in UdpPayloads, rinfo \in Peers :
        UdpOnMessage(msg, rinfo) /\ UNCHANGED <<udpVars, clVars>>
  \/ \E rinfo \in Peers : UdpRespond(rinfo) /\ UNCHANGED <<udpVars, clVars>>
  \/ \E err \in BOOLEAN : UdpOnSendDone(err) /\ UNCHANGED <<udpVars, clVars>>
  \/ UdpShutdown /\ UNCHANGED <<udpVars, clVars>>
  \/ UdpOnClose /\ UNCHANGED <<udpVars, clVars>>
  \/ \E i \in DOMAIN acts, outcome \in {"ok", "fail"} :
        UdpHandlerSettles(i, outcome) /\ UNCHANGED <<udpVars, clVars>>

\* A UDPServer with its handlers registered.
InitUDPS ==
  /\ UdpInit /\ config = [s \in Stages |-> ChainLen]
  /\ eventHandlers = UdpHandlers
  /\ acts = << >>
  /\ warned = {}
  /\ regs = 0
  /\ calls = 0
  /\ TcpInit
  /\ UsInit
  /\ ClInit

SpecUDPS == InitUDPS /\ [][NextUDPS]_vars

NextClient ==
  \/ CreateUdpClient /\ UNCHANGED <<udpVars, psVars, tcpVars, usVars>>
  \/ ClientSendData /\ UNCHANGED <<udpVars, psVars, tcpVars, usVars>>
  \/ \E err \in BOOLEAN :
        ClientOnSendDone(err) /\ UNCHANGED <<udpVars, psVars, tcpVars, usVars>>

\* createUdpClient
SpecClient == InitPS /\ [][NextClient]_vars

(***************************************************************************)
(* Properties of createUdpServer (checked under Spec).                     *)
(***************************************************************************)
\* The places of the log where the chain of stage fired for identity who.
Fired(stage, who) ==
  {i \in DOMAIN log : log[i].stage = stage /\ log[i].who = who}

FiredStage(stage) == {i \in DOMAIN log : log[i].stage = stage}

Keys == {SessionKey(p) : p \in Peers}

\* The identities the server has recorded: activeSessions.add is followed at
\* once by the connect chain.
Tracked == {k \in Keys : Fired("connect", k) # {}}

\* C1: for every identity the handshake chain and the connect chain fire at
\* most once, a connect firing is preceded by the handshake firing, and every
\* processMessage firing of the identity is preceded by its handshake firing
\* and then its connect firing (so both have fired exactly once by then).
C1_HandshakeConnectOnce ==
  \A k \in Keys :
    /\ Cardinality(Fired("handshake", k)) <= 1
    /\ Cardinality(Fired("connect", k)) <= 1
    /\ \A c \in Fired("connect", k) : \E h \in Fired("handshake", k) : h < c
    /\ \A m \in Fired("processMessage", k) :
         \E h \in Fired("handshake", k), c \in Fired("connect", k) :
           h < c /\ c < m

\* C2: the acknowledgment handed to send for a text payload P is the bytes
\* of "ACK: " followed by the bytes of P, unchanged.
C2_AckIsLiteralPlusPayload ==
  \A i \in DOMAIN pending :
    IsText(pending[i].msg) => pending[i].response = AckLiteral \o pending[i].msg

\* C4: no handler failure leaves the server (to the owning process or the
\* transport callback): each one is followed by a firing of the error chain
\* and the process keeps running.
C4_FailuresNeverLeaveTheServer ==
  /\ uncaught = {}
  /\ alive
  /\ \A i \in DOMAIN log :
       log[i].threw => i < Len(log) /\ log[i + 1].stage = "error"

\* C5: teardown fires disconnect exactly once per identity the server had
\* recorded and shutdown exactly once in total, however often close is
\* invoked and also after an error-forced closure; never twice.  (Stated for
\* a process that is still running.)
C5_TeardownFiresOnce ==
  /\ Cardinality(FiredStage("shutdown")) <= 1
  /\ \A k \in Keys : Cardinality(Fired("disconnect", k)) <= 1
  /\ (alive /\ sock = "closed") =>
       /\ Cardinality(FiredStage("shutdown")) = 1
       /\ \A k \in Tracked : Cardinality(Fired("disconnect", k)) = 1

\* C6: close() on a server whose transport is already closed (or closing)
\* raises no error to the caller and leaves the server closed.
C6_CloseOnClosedDoesNotFail ==
  closeThrew = 0

\* C7: once the close listener has run on a server that recorded k
\* identities, k disconnect chains have fired, one per recorded identity, all
\* of them before the one shutdown firing, and the session set is empty.
\* (Stated for a process that is still running.)
C7_DisconnectsThenOneShutdown ==
  (alive /\ sock = "closed") =>
    /\ Cardinality(FiredStage("disconnect")) = Cardinality(Tracked)
    /\ \A k \in Tracked : Cardinality(Fired("disconnect", k)) = 1
    /\ Cardinality(FiredStage("shutdown")) = 1
    /\ \A d \in FiredStage("disconnect"), s \in FiredStage("shutdown") : d < s
    /\ activeSessions = << >>

\* C8: disconnect fires at most once per identity, only in the close
\* listener, and only for an identity whose connect chain ran to completion
\* before.
C8_DisconnectOnlyAfterCompletedConnect ==
  \A k \in Keys :
    /\ Cardinality(Fired("disconnect", k)) <= 1
    /\ \A d \in Fired("disconnect", k) :
         /\ sock = "closed"
         /\ \E c \in Fired("connect", k) : c < d /\ ~log[c].threw

(***************************************************************************)
(* Properties of ProtocolServer (checked under SpecPS).                    *)
(***************************************************************************)
Failures(a) == {j \in DOMAIN a.ran : a.ran[j].outcome = "fail"}

\* The calls of the catch block of activation i.
Dispatched(i) == {c \in DOMAIN acts : acts[c].parent = i}

\* C3: in call(stage, args) the handlers run in chain order whatever the
\* earlier ones did, a finished call has run every handler of its chain, and
\* every failure has made exactly one call('error', error, stage, ...args).
C3_FailureIsolatedAndReportedOnce ==
  \A i \in DOMAIN acts :
    LET a == acts[i] IN
    a.known =>
      /\ Len(a.ran) <= Len(a.chain)
      /\ \A j \in DOMAIN a.ran : a.ran[j].h = a.chain[j]
      /\ a.pc = "done" <=> Len(a.ran) = Len(a.chain)
      /\ Cardinality(Dispatched(i)) = Cardinality(Failures(a))
      /\ \A c \in Dispatched(i) :
           /\ acts[c].event = "error"
           /\ acts[c].args = <<"Error", a.event>> \o a.args

\* A finished call whose first handler failed, whose later handler still
\* ran, and whose failure was dispatched to the error stage.
C3_Witness ==
  \E i \in DOMAIN acts :
    /\ acts[i].pc = "done"
    /\ Len(acts[i].ran) >= 2
    /\ acts[i].ran[1].outcome = "fail"
    /\ Dispatched(i) # {}

\* C12: a configuration may leave any stage key out; the absent stage behaves
\* as an empty chain, so no firing of the constructor or of a raw event
\* listener fails before the first handler of its chain.
C12_AbsentStageIsEmptyChain ==
  \A i \in DOMAIN log : ~(log[i].threw /\ log[i].ran = 0)

\* The transport reported that the bind failed.
BindFailed == \E i \in FiredStage("error") : log[i].who = BindError

\* C13: listening fires at most once and only once the transport has
\* confirmed the bind; a failed bind fires the error chain with the
\* address-in-use error and listening never fires for that server.
C13_ListeningOnlyAfterBind ==
  /\ Cardinality(FiredStage("listening")) <= 1
  /\ FiredStage("listening") # {} => sock \in {"bound", "closing", "closed"}
  /\ sock = "unbound" => BindFailed
  /\ BindFailed => FiredStage("listening") = {}

C13_Witness ==
  /\ BindFailed
  /\ sock = "closed"
  /\ FiredStage("listening") = {}
  /\ FiredStage("shutdown") # {}

\* C14: every error of the transport is routed to the error chain and then
\* the socket is closed: the server takes no further datagram.
C14_ErrorClosesTheSocket ==
  (alive /\ FiredStage("error") # {}) => sock \in {"closing", "closed"}

\* The firings of a stage made for datagram number dg.
FiredFor(stage, dg) == {i \in FiredStage(stage) : log[i].dg = dg}

\* C15: respondMessage fires for a datagram exactly when the send of its
\* acknowledgment succeeded, and then once; a failed send suppresses it for
\* that datagram only.
C15_RespondIffSendSucceeded ==
  \A dg \in 1..dgCount :
    /\ FiredFor("respondMessage", dg) # {} <=> <<dg, FALSE>> \in sendDone
    /\ Cardinality(FiredFor("respondMessage", dg)) <= 1

C15_Witness ==
  /\ <<1, TRUE>> \in sendDone
  /\ <<2, FALSE>> \in sendDone
  /\ FiredFor("respondMessage", 1) = {}
  /\ FiredFor("respondMessage", 2) # {}

\* C16: a failed send of the acknowledgment fires the error chain for that
\* datagram.
C16_SendFailureFiresError ==
  \A dg \in 1..dgCount :
    <<dg, TRUE>> \in sendDone => FiredFor("error", dg) # {}

\* The firings the message listener makes for datagram number dg before it
\* sends the acknowledgment.
Inbound(dg) == {i \in DOMAIN log : log[i].dg = dg /\ log[i].stage # "respondMessage"}

\* The acknowledgment of datagram number dg was handed to the socket.
AckIssued(dg) ==
  \/ \E j \in DOMAIN pending : pending[j].dg = dg
  \/ \E err \in BOOLEAN : <<dg, err>> \in sendDone

\* C17: for every datagram receiveMessage fires first, then handshake and
\* connect when the identity was not seen before, then processMessage for
\* every datagram, then the acknowledgment is sent; the firings of one
\* datagram are not interleaved with those of another.
C17_StagesOfADatagramInOrder ==
  \A dg \in 1..dgCount :
    /\ Inbound(dg) # {}
    /\ LET blk == Inbound(dg)
           lo == CHOOSE i \in blk : \A k \in blk : i <= k
           hi == CHOOSE i \in blk : \A k \in blk : k <= i
           unseen == \A i \in 1..(lo - 1) : log[i].who # log[lo].who
           stages == [j \in 1..(hi - lo + 1) |-> log[lo + j - 1].stage]
       IN /\ blk = lo..hi
          /\ stages = IF unseen
                        THEN <<"receiveMessage", "handshake", "connect",
                               "processMessage">>
                        ELSE <<"receiveMessage", "processMessage">>
    /\ AckIssued(dg)

\* C18: init fires exactly once, in the constructor: before the socket
\* exists and before every other firing.
C18_InitOnceAndFirst ==
  /\ sock # "none" => log # << >>
  /\ log # << >> => (log[1].stage = "init" /\ FiredStage("init") = {1})

C18_Witness ==
  /\ sock = "closed"
  /\ FiredStage("init") = {1}
  /\ FiredStage("listening") # {}
  /\ FiredStage("receiveMessage") # {}
  /\ FiredStage("error") # {}
  /\ FiredStage("shutdown") # {}

\* C11: a call on a recognised stage other than error whose chain is empty
\* dispatches one error-stage event.
C11_EmptyChainIsReported ==
  \A i \in DOMAIN acts :
    (acts[i].known /\ acts[i].event # "error" /\ acts[i].chain = << >>)
      => Cardinality(Dispatched(i)) = 1

\* The stages a frame has called, in the order of the calls.
FrameStages(f) == [j \in DOMAIN f.made |-> acts[f.made[j]].event]

\* C19: on the stream path an accepted connection fires connect once, every
\* data chunk fires receiveMessage, processMessage and respondMessage in
\* that order, and the close of the peer fires disconnect.
C19_StreamStagesPerChunk ==
  \A k \in DOMAIN frames :
    frames[k].pc = "done" =>
      /\ frames[k].kind = "handleConnection" => FrameStages(frames[k]) = <<"connect">>
      /\ frames[k].kind = "data" =>
            FrameStages(frames[k]) =
              <<"receiveMessage", "processMessage", "respondMessage">>
      /\ frames[k].kind = "end" => FrameStages(frames[k]) = <<"disconnect">>

\* C21: a registration under a name that is no lifecycle stage is reported
\* as an error-stage event at registration time.
C21_UnknownStageIsReported ==
  \A e \in warned :
    \E i \in DOMAIN acts :
      /\ acts[i].event = "error"
      /\ Len(acts[i].args) >= 2
      /\ acts[i].args[2] = e

\* C28: a failing error handler does not make call re-dispatch the error
\* stage without end: the error dispatch made for a failure of an error
\* handler is not itself followed by a further error dispatch.
C28_ErrorRedispatchEnds ==
  \A i \in DOMAIN acts :
    (/\ acts[i].event = "error"
     /\ acts[i].parent \in DOMAIN acts
     /\ acts[i].parent < i
     /\ acts[acts[i].parent].event = "error")
      => Dispatched(i) = {}

\* C22: once close was invoked on a bound server the teardown runs: disconnect
\* eventually fires for every identity tracked and shutdown eventually fires.
C22_CloseLeadsToTeardown ==
  (/\ alive /\ sock = "closing"
   /\ closeCalls = 1 /\ closeThrew = 0
   /\ FiredStage("error") = {}) ~>
    (/\ FiredStage("shutdown") # {}
     /\ \A k \in Tracked : Fired("disconnect", k) # {})

\* The invocations of call() for a stage.
ActsOf(stage) == {i \in DOMAIN acts : acts[i].event = stage}

\* C23: in UDPServer.listen (and TCPServer.listen, which starts the same
\* way) listening fires only once the transport has confirmed the bind, and
\* not at all when the bind fails.
C23_ListeningAfterBindInListen ==
  /\ ActsOf("listening") # {} => usock \in {"bound", "closing", "closed"}
  /\ usock = "unbound" => ActsOf("listening") = {}

\* C24: in respond the respondMessage stage fires only after the response was
\* transmitted; a failed send fires no respondMessage for that response and
\* dispatches an error event tagged respond.
C24_RespondMessageAfterTransmission ==
  \A k \in FramesOf(frames, "respond") :
    /\ frames[k].made # << >> => <<k, FALSE>> \in usent
    /\ <<k, TRUE>> \in usent =>
         /\ frames[k].made = << >>
         /\ \E i \in ActsOf("error") : acts[i].args[2] = "respond"

\* C25: in UDPServer.listen an error of the transport is dispatched to the
\* error stage and the socket is then torn down and left closed.
C25_ListenErrorClosesSocket ==
  (\E i \in ActsOf("error") : acts[i].args[2] = "listen")
    => usock \in {"closing", "closed"}

\* C26: shutdown invoked twice fires the shutdown chain once in all, and the
\* second invocation does not fail.
C26_ShutdownTwiceFiresOnce ==
  /\ Cardinality(ActsOf("shutdown")) <= 1
  /\ \A k \in FramesOf(frames, "shutdown") : frames[k].pc # "rejected"

\* C27: in UDPServer the first datagram of an identity fires handshake and
\* then connect before processMessage; later datagrams of it fire neither.
C27_UdpServerHandshakeConnect ==
  \A k \in FramesOf(frames, "message") :
    LET rinfo == acts[frames[k].made[1]].args[3]
        unseen == \A e \in FramesOf(frames, "message") :
                    e < k => acts[frames[e].made[1]].args[3] # rinfo
        before == {i \in DOMAIN acts : frames[k].made[1] <= i /\ i < frames[k].made[2]}
    IN IF unseen
         THEN \E i, j \in before :
                /\ i < j
                /\ acts[i].event = "handshake"
                /\ acts[j].event = "connect"
         ELSE \A i \in before : acts[i].event \notin {"handshake", "connect"}

\* C29: in UDPServer every receiveMessage handler of a datagram has completed
\* before a processMessage handler of that datagram starts.
C29_ReceiveCompletesBeforeProcess ==
  \A k \in FramesOf(frames, "message") :
    acts[frames[k].made[2]].started > 0 => acts[frames[k].made[1]].pc = "done"

\* The firings of a stage by the client.
ClientFired(stage) == {i \in DOMAIN clLog : clLog[i].stage = stage}

\* C30: whatever the interleaving of sendData calls and send callbacks, the
\* handshake chain and the connect chain of a client each fire at most once,
\* and handshake fires before connect.
C30_ClientHandshakeConnectOnce ==
  /\ Cardinality(ClientFired("handshake")) <= 1
  /\ Cardinality(ClientFired("connect")) <= 1
  /\ \A c \in ClientFired("connect") :
       \E h \in ClientFired("handshake") : h < c

\* C31, as the code has it: once shutdown has fired, no stage fires afterwards
\* except respondMessage, and that only for an acknowledgment whose send was
\* outstanding when the teardown began and whose callback reports success.
C31_OnlyRespondMessageAfterShutdown ==
  \A i \in FiredStage("shutdown") :
    \A j \in DOMAIN log :
      j > i =>
        /\ log[j].stage = "respondMessage"
        /\ <<log[j].dg, FALSE>> \in sendDone
        /\ FiredFor("processMessage", log[j].dg) # {}
        /\ \A m \in FiredFor("processMessage", log[j].dg) : m < i

C31_Witness ==
  \E i \in FiredStage("shutdown") :
    \E j \in FiredStage("respondMessage") : j > i /\ ~log[i].threw

\* C31 as stated: once shutdown has fired no other stage fires afterwards,
\* respondMessage of an outstanding acknowledgment included.
C31_NothingAfterShutdown ==
  \A i \in FiredStage("shutdown") : i = Len(log)

\* C20: call awaits each handler before it starts the next one of the chain:
\* at most one handler of an activation is started and not settled, and the
\* handlers settle in the order of the chain.
C20_HandlersOfACallDoNotOverlap ==
  \A i \in DOMAIN acts :
    LET a == acts[i] IN
    /\ a.started <= Len(a.ran) + 1
    /\ a.started <= Len(a.chain)
    /\ a.pc = "await" => a.started = Len(a.ran) + 1
    /\ \A j \in DOMAIN a.ran : a.ran[j].h = a.chain[j]

C20_Witness ==
  \E i \in DOMAIN acts :
    /\ Len(acts[i].chain) >= 2
    /\ Len(acts[i].ran) = 1
    /\ acts[i].started = 2
    /\ acts[i].pc = "await"

\* The application has registered an error handler of its own.
CustomErrorHandler ==
  \E h \in UserHandlers : Includes(eventHandlers["error"], h)

\* C9: once an error handler of the application is registered (onError or
\* on('error', handler)), the default fallback handler is not in the error
\* chain.
C9_CustomErrorHandlerEvictsDefault ==
  CustomErrorHandler => ~Includes(eventHandlers["error"], DefaultErrorHandler)

\* C10: while the application has registered no error handler, the default
\* fallback handler is in the error chain, and every error dispatch of call
\* runs it.
C10_DefaultStaysWithoutCustomHandler ==
  ~CustomErrorHandler =>
    /\ Includes(eventHandlers["error"], DefaultErrorHandler)
    /\ \A i \in DOMAIN acts :
         acts[i].event = "error" => Includes(acts[i].chain, DefaultErrorHandler)

====
